---------------------------- MODULE Spec2Model ----------------------------
(***************************************************************************)
(* Model of debtclear_webhook.py: the intake handler (gates, case id,      *)
(* statutory claim calculation, letter rendering, notification), the case  *)
(* retrieval endpoint and the document directory they share.               *)
(*                                                                         *)
(* The program holds money as IEEE-754 doubles of pounds.  An amount that  *)
(* is the double nearest to a whole number of pence (the principal, the    *)
(* interest, the compensation) is held here as that number of pence.  The  *)
(* total is a sum of doubles and need not be such a value: it is held as   *)
(* the double itself.  The double arithmetic (the product handed to        *)
(* round() and the sum) is computed bit for bit, on naturals written as    *)
(* little-endian sequences of 14-bit limbs.                                *)
(***************************************************************************)
EXTENDS Integers, Sequences, FiniteSets, TLC

(***************************************************************************)
(* Naturals of any size: <<l1, ..., ln>> is l1 + l2*B + ... + ln*B^(n-1),  *)
(* every limb in 0..B-1, the last one non-zero; 0 is << >>.                *)
(***************************************************************************)
LimbBits == 14

RECURSIVE Pow2(_)
Pow2(n) == IF n = 0 THEN 1 ELSE 2 * Pow2(n - 1)

LimbBase == Pow2(LimbBits)

RECURSIVE BigNorm(_)
BigNorm(s) ==
  IF s = << >> THEN << >>
  ELSE IF s[Len(s)] = 0 THEN BigNorm(SubSeq(s, 1, Len(s) - 1))
  ELSE s

RECURSIVE BigFromInt(_)
BigFromInt(n) ==
  IF n = 0 THEN << >>
  ELSE <<n % LimbBase>> \o BigFromInt(n \div LimbBase)

RECURSIVE BigToInt(_)
BigToInt(s) ==
  IF s = << >> THEN 0
  ELSE s[1] + LimbBase * BigToInt(Tail(s))

RECURSIVE BigMulSmallC(_, _, _)
BigMulSmallC(s, k, carry) ==
  IF s = << >> THEN BigFromInt(carry)
  ELSE LET t == s[1] * k + carry
       IN  <<t % LimbBase>> \o BigMulSmallC(Tail(s), k, t \div LimbBase)

\* s * k for 0 <= k < LimbBase
BigMulSmall(s, k) == BigNorm(BigMulSmallC(s, k, 0))

RECURSIVE BigAddC(_, _, _)
BigAddC(a, b, carry) ==
  IF a = << >> /\ b = << >> THEN BigFromInt(carry)
  ELSE LET x == IF a = << >> THEN 0 ELSE a[1]
           y == IF b = << >> THEN 0 ELSE b[1]
           t == x + y + carry
       IN  <<t % LimbBase>>
             \o BigAddC(IF a = << >> THEN << >> ELSE Tail(a),
                        IF b = << >> THEN << >> ELSE Tail(b),
                        t \div LimbBase)

BigAdd(a, b) == BigNorm(BigAddC(a, b, 0))

RECURSIVE BigMul(_, _)
BigMul(a, b) ==
  IF b = << >> \/ a = << >> THEN << >>
  ELSE BigAdd(BigMulSmall(a, b[1]),
              LET r == BigMul(a, Tail(b))
              IN  IF r = << >> THEN << >> ELSE <<0>> \o r)

RECURSIVE BitLenInt(_)
BitLenInt(n) == IF n = 0 THEN 0 ELSE 1 + BitLenInt(n \div 2)

BigBitLen(s) ==
  IF s = << >> THEN 0
  ELSE LimbBits * (Len(s) - 1) + BitLenInt(s[Len(s)])

\* bit i (bit 0 the lowest) of s
BigBit(s, i) ==
  LET l == (i \div LimbBits) + 1
  IN  IF l > Len(s) THEN 0 ELSE (s[l] \div Pow2(i % LimbBits)) % 2

\* TRUE iff one of the n lowest bits of s is set
BigLowNonZero(s, n) == \E i \in 0 .. (n - 1) : BigBit(s, i) = 1

\* floor(s / 2^n)
BigShr(s, n) ==
  LET drop == n \div LimbBits
      b    == n % LimbBits
      t    == IF drop >= Len(s) THEN << >> ELSE SubSeq(s, drop + 1, Len(s))
  IN  BigNorm([i \in 1 .. Len(t) |->
                 (t[i] \div Pow2(b))
                 + (IF i < Len(t) THEN (t[i + 1] % Pow2(b)) * Pow2(LimbBits - b)
                    ELSE 0)])

\* s * 2^n
BigShl(s, n) ==
  IF s = << >> THEN << >>
  ELSE [i \in 1 .. (n \div LimbBits) |-> 0] \o BigMulSmall(s, Pow2(n % LimbBits))

RECURSIVE BigDivSmallR(_, _, _)
\* long division from the top limb down; r is the running remainder.
\* Returns <<quotient limbs (little-endian, not normalised), remainder>>.
BigDivSmallR(s, d, r) ==
  IF s = << >> THEN << << >>, r >>
  ELSE LET t    == r * LimbBase + s[Len(s)]
           rest == BigDivSmallR(SubSeq(s, 1, Len(s) - 1), d, t % d)
       IN  << rest[1] \o <<t \div d>>, rest[2] >>

\* <<floor(s / d), s mod d>> for 0 < d < LimbBase
BigDivSmall(s, d) ==
  LET qr == BigDivSmallR(s, d, 0) IN << BigNorm(qr[1]), qr[2] >>

(***************************************************************************)
(* IEEE-754 binary64, positive finite values only: [m, e] is m * 2^e with  *)
(* m a natural of at most 53 bits (or exactly 2^53).  Results are rounded  *)
(* to nearest, ties to even, as the hardware does.                         *)
(***************************************************************************)
MantissaBits == 53

\* (M + a non-zero fraction iff sticky) * 2^e rounded to a double
RoundNearestEven(M, e, sticky) ==
  LET L == BigBitLen(M)
  IN  IF L <= MantissaBits THEN [m |-> M, e |-> e]
      ELSE LET s    == L - MantissaBits
               q    == BigShr(M, s)
               half == BigBit(M, s - 1) = 1
               low  == sticky \/ BigLowNonZero(M, s - 1)
               up   == half /\ (low \/ BigBit(q, 0) = 1)
           IN  [m |-> IF up THEN BigAdd(q, <<1>>) ELSE q, e |-> e + s]

FloatFromInt(n) == [m |-> BigFromInt(n), e |-> 0]

\* x * y
FloatMul(x, y) == RoundNearestEven(BigMul(x.m, y.m), x.e + y.e, FALSE)

\* x + y
FloatAdd(x, y) ==
  LET e == IF x.e < y.e THEN x.e ELSE y.e
  IN  RoundNearestEven(BigAdd(BigShl(x.m, x.e - e), BigShl(y.m, y.e - e)), e, FALSE)

RECURSIVE FloatCanon(_)
\* the one way a value is written: m odd, and 0 as [m |-> << >>, e |-> 0]
FloatCanon(x) ==
  IF x.m = << >> THEN [m |-> << >>, e |-> 0]
  ELSE IF BigBit(x.m, 0) = 1 THEN x
  ELSE FloatCanon([m |-> BigShr(x.m, 1), e |-> x.e + 1])

GuardBits == 70

\* x / d for an integer 0 < d < LimbBase
FloatDivInt(x, d) ==
  IF x.m = << >> THEN x
  ELSE LET qr == BigDivSmall(BigShl(x.m, GuardBits), d)
       IN  RoundNearestEven(qr[1], x.e - GuardBits, qr[2] # 0)

\* Python's round(x) of a float: the nearest integer, ties to even
PyRound(x) ==
  IF x.e >= 0 THEN BigToInt(BigShl(x.m, x.e))
  ELSE LET s    == 0 - x.e
           q    == BigShr(x.m, s)
           half == BigBit(x.m, s - 1) = 1
           low  == BigLowNonZero(x.m, s - 1)
           up   == half /\ (low \/ BigBit(q, 0) = 1)
       IN  BigToInt(q) + (IF up THEN 1 ELSE 0)

\* the double nearest to pence/100 pounds: what the JSON body's decimal parses
\* to, and what an integer divided by 100 gives
PoundsOf(pence) == FloatDivInt(FloatFromInt(pence), 100)

\* the pence f"{x:,.2f}" prints: x * 100 exactly, to the nearest integer
PencePrinted(x) == PyRound([m |-> BigMulSmall(x.m, 100), e |-> x.e])

(***************************************************************************)
(* calculate_statutory_claim                                               *)
(***************************************************************************)
\* annual_rate = 0.1275, as the double the literal denotes
AnnualRate == FloatDivInt(FloatFromInt(1275), 10000)

\* daily_rate = annual_rate / 365
DailyRate == FloatDivInt(AnnualRate, 365)

\* round(amount_gbp * daily_rate * days_overdue * 100) / 100, in pence
InterestPence(pence, days) ==
  PyRound(FloatMul(FloatMul(FloatMul(PoundsOf(pence), DailyRate),
                            FloatFromInt(days)),
                   FloatFromInt(100)))

\* the fixed compensation tiers, in pence
Compensation(pence) ==
  IF pence < 100000 THEN 4000
  ELSE IF pence < 1000000 THEN 7000
  ELSE 10000

(***************************************************************************)
(* Calendar dates.  A date string "YYYY-MM-DD" is held as its three        *)
(* numeric fields <<y, m, d>>; strptime accepts it iff the fields name a   *)
(* day of the proleptic Gregorian calendar.                                *)
(***************************************************************************)
IsLeap(y) == (y % 4 = 0) /\ ((y % 100 # 0) \/ (y % 400 = 0))

DaysInMonth(y, m) ==
  IF m = 2 THEN (IF IsLeap(y) THEN 29 ELSE 28)
  ELSE IF m \in {4, 6, 9, 11} THEN 30
  ELSE 31

\* datetime.strptime(due_date_str, "%Y-%m-%d") returns (FALSE: raises ValueError)
ParsesAsDate(dt) ==
  /\ dt[1] \in 1 .. 9999
  /\ dt[2] \in 1 .. 12
  /\ dt[3] \in 1 .. DaysInMonth(dt[1], dt[2])

RECURSIVE DaysBeforeMonth(_, _)
DaysBeforeMonth(y, m) ==
  IF m = 1 THEN 0 ELSE DaysBeforeMonth(y, m - 1) + DaysInMonth(y, m - 1)

\* the day's ordinal (1 = 0001-01-01), as datetime counts days
Ordinal(dt) ==
  LET y == dt[1] - 1
  IN  y * 365 + (y \div 4) - (y \div 100) + (y \div 400)
        + DaysBeforeMonth(dt[1], dt[2]) + dt[3]

NextDay(dt) ==
  IF dt[3] < DaysInMonth(dt[1], dt[2]) THEN <<dt[1], dt[2], dt[3] + 1>>
  ELSE IF dt[2] < 12 THEN <<dt[1], dt[2] + 1, 1>>
  ELSE <<dt[1] + 1, 1, 1>>

\* strftime('%Y%m%d') read as a number
YYYYMMDD(dt) == dt[1] * 10000 + dt[2] * 100 + dt[3]

\* max(0, (today - due_date).days): due_date is a midnight, today any time of
\* the day `now`, and timedelta.days rounds towards minus infinity
DaysOverdue(due, now) ==
  LET diff == Ordinal(now) - Ordinal(due) IN IF diff > 0 THEN diff ELSE 0

\* total_claim = amount_gbp + interest + compensation: two additions of
\* doubles, the compensation being an integer of pounds
TotalClaim(pence, interest, comp) ==
  FloatCanon(FloatAdd(FloatAdd(PoundsOf(pence), PoundsOf(interest)),
                      FloatFromInt(comp \div 100)))

\* the dict calculate_statutory_claim returns once the due date has parsed,
\* with `now` the value datetime.now() returned
ClaimCalc(pence, due, now) ==
  LET days     == DaysOverdue(due, now)
      interest == InterestPence(pence, days)
      comp     == Compensation(pence)
  IN  [days_overdue           |-> days,
       statutory_interest_gbp |-> interest,
       compensation_gbp       |-> comp,
       total_claim_gbp        |-> TotalClaim(pence, interest, comp)]

(***************************************************************************)
(* Bounds and the inputs drawn from them                                   *)
(***************************************************************************)
MaxRequests == 2
MaxTicks == 1

StartDate == <<2026, 10, 31>>

Emails == {"ann@acme.example", "bob@bolt.example"}
DebtorTypes == {"business", "individual"}
\* <<client, amount owed in pence, due date>>: 365.00 due six days before
\* StartDate; 10000.00 due two days after it; and a due date no calendar has
Debts ==
  {<<"ann@acme.example", 36500, <<2026, 10, 25>>>>,
   <<"bob@bolt.example", 1000000, <<2026, 11, 2>>>>,
   <<"ann@acme.example", 36500, <<2026, 2, 30>>>>}

\* values hash(client_email) can take (PYTHONHASHSEED decides, once per process)
RawHashes == {-12345, 770001}

\* the hash tables a process may run with: the two addresses hash to suffixes
\* that differ, or to the same suffix
HashTables ==
  {h \in [Emails -> RawHashes] : h["ann@acme.example"] = -12345}

Submissions ==
  {[client_email        |-> d[1],
    client_name         |-> "Ann",
    client_business     |-> "Acme Ltd",
    debtor_name         |-> "Debtor Ltd",
    debtor_address      |-> "1 High St",
    debtor_type         |-> t,
    amount_owed_gbp     |-> d[2],
    invoice_date        |-> <<2026, 9, 1>>,
    due_date            |-> d[3],
    description_of_debt |-> "goods",
    dpa_accepted        |-> a] :
     t \in DebtorTypes, d \in Debts, a \in BOOLEAN}

\* what requests.post can do: answer with a status code, or raise
TransportOutcomes ==
  [kind : {"status"}, code : {202, 500}]
    \cup [kind : {"raise"}, code : {0}]

\* how much of the letter is in the file when the write raises: any number of
\* its parts can be.  The cases taken here: none; the reference and the date;
\* all sixteen (the text lacks its last bytes only).
WriteCuts == {0, 2, 16}

\* what generate_lba_pdf can do: write the file; raise before the file is
\* opened; raise after open(txt_path, "w") has created or emptied it, with
\* `kept` parts of the letter in the file
RenderOutcomes ==
  [kind : {"ok", "open_fails"}, kept : {0}]
    \cup [kind : {"write_fails"}, kept : WriteCuts]

(***************************************************************************)
(* State                                                                   *)
(***************************************************************************)
VARIABLES
  clock,     \* the date datetime.now() returns
  ticks,     \* midnights passed since the process started
  hashOf,    \* hash(client_email) in this process, per address
  store,     \* the files of PDF_OUTPUT_DIR: case id |-> content of <case id>.txt
  pc,        \* where the handler that is running stands ("idle": none runs)
  req,       \* the request being handled (or the last one handled)
  resp,      \* the HTTP response of the last request handled
  nreq,      \* requests received so far
  assigned,  \* the case ids given to accepted submissions, in order
  rendered,  \* the case ids whose letter was written completely (by this
             \* process or by an earlier one that left its files behind)
  calcLog    \* the calls of calculate_statutory_claim that returned

vars == <<clock, ticks, hashOf, store, pc, req, resp, nreq, assigned, rendered, calcLog>>

NoSub == [client_email |-> "", client_name |-> "", client_business |-> "",
          debtor_name |-> "", debtor_address |-> "", debtor_type |-> "",
          amount_owed_gbp |-> 0, invoice_date |-> <<0, 0, 0>>,
          due_date |-> <<0, 0, 0>>, description_of_debt |-> "",
          dpa_accepted |-> FALSE]
NoId == [date |-> 0, suffix |-> 0]
NoClaim == [days_overdue |-> 0, statutory_interest_gbp |-> 0,
            compensation_gbp |-> 0, total_claim_gbp |-> [m |-> << >>, e |-> 0]]
NoTransport == [kind |-> "none", code |-> 0]
NoResp == [status |-> 0]

\* a request as it arrives: nothing computed, nothing done yet
NewReq(kind, sub, id, st) ==
  [kind      |-> kind,          \* "intake" or "get_case"
   sub       |-> sub,           \* the IntakeSubmission
   case_id   |-> id,            \* case_id (assigned, or asked for)
   claim     |-> NoClaim,       \* claim_calc
   render    |-> "none",        \* how generate_lba_pdf ended
   transport |-> NoTransport,   \* how requests.post ended
   email_sent |-> FALSE,        \* email_sent, once send_email_via_sendgrid returned
   before    |-> st,            \* the directory as the request found it
   trace     |-> << >>,         \* the stages run, in order
   calcs     |-> 0,             \* calls of calculate_statutory_claim
   writes    |-> 0,             \* times the letter file was opened for writing
   sends     |-> 0]             \* calls of requests.post

(***************************************************************************)
(* handle_intake, stage by stage.  The handler is an async function that   *)
(* never awaits, so the event loop runs it to its end before it starts     *)
(* another request; the clock alone moves while it runs.                   *)
(***************************************************************************)
Abs(n) == IF n < 0 THEN 0 - n ELSE n

\* f"DC-{now:%Y%m%d}-{abs(hash(email)) % 10000:04d}": the two numbers in it
CaseIdOf(now, h) == [date |-> YYYYMMDD(now), suffix |-> Abs(h) % 10000]

\* Gate 1 rejects
NotBusiness(sub) == sub.debtor_type # "business"

ConsentMissing_Unchecked(sub) == FALSE

\* Gate 2 rejects
ConsentMissing(sub) == ~sub.dpa_accepted

\* the text generate_lba_pdf formats from case_data: its parts in the order of
\* the text, each formatted value with the fixed text around it
Letter(id, now, sub, claim) ==
  <<[part |-> "reference",       value |-> id],
    [part |-> "date",            value |-> now],
    [part |-> "from_business",   value |-> sub.client_business],
    [part |-> "from_email",      value |-> sub.client_email],
    [part |-> "to_name",         value |-> sub.debtor_name],
    [part |-> "to_address",      value |-> sub.debtor_address],
    [part |-> "dear",            value |-> sub.debtor_name],
    [part |-> "principal",       value |-> sub.amount_owed_gbp],
    [part |-> "interest",        value |-> claim.statutory_interest_gbp],
    [part |-> "compensation",    value |-> claim.compensation_gbp],
    [part |-> "total",           value |-> PencePrinted(claim.total_claim_gbp)],
    [part |-> "tier",            value |-> claim.compensation_gbp],
    [part |-> "pay_in_full",     value |-> PencePrinted(claim.total_claim_gbp)],
    [part |-> "pay_within_days", value |-> 30],
    [part |-> "signed",          value |-> sub.client_business],
    [part |-> "disclaimer",      value |-> "not legal advice"]>>

\* what <case id>.txt holds after generate_lba_pdf ended as `outcome`, once
\* open(txt_path, "w") has created or emptied it: the letter, or, when the
\* write raised, the part of it that reached the file before
FileAfterWrite(outcome, letter) ==
  IF outcome.kind = "ok" THEN letter ELSE SubSeq(letter, 1, outcome.kept)

\* the directory after generate_lba_pdf ended as `outcome`
StoreAfterRender(st, id, outcome, letter) ==
  IF outcome.kind = "open_fails" THEN st
  ELSE [i \in DOMAIN st \cup {id} |->
          IF i = id THEN FileAfterWrite(outcome, letter) ELSE st[i]]

RenderFailed_Swallowed(outcome) == FALSE

\* the except clause of handle_intake's try around generate_lba_pdf is taken
RenderFailed(outcome) == outcome.kind # "ok"

SendEmailViaSendgrid_NoCatch(outcome) ==
  IF outcome.kind = "raise" THEN [raised |-> TRUE, value |-> FALSE]
  ELSE [raised |-> FALSE, value |-> outcome.code \in {200, 201, 202}]

\* send_email_via_sendgrid: [raised |-> it raised, value |-> what it returned]
SendEmailViaSendgrid(outcome) ==
  IF outcome.kind = "raise" THEN [raised |-> FALSE, value |-> FALSE]
  ELSE IF outcome.code \in {200, 201, 202} THEN [raised |-> FALSE, value |-> TRUE]
  ELSE [raised |-> FALSE, value |-> FALSE]

StageAfter_NotifyBeforeRender(stage) ==
  CASE stage = "gate_debtor_type" -> "gate_consent"
    [] stage = "gate_consent"     -> "case_id"
    [] stage = "case_id"          -> "calculate"
    [] stage = "calculate"        -> "notify"
    [] stage = "notify"           -> "render"
    [] stage = "render"           -> "respond"
    [] stage = "respond"          -> "done"

\* the stage the straight-line code of handle_intake runs after `stage`
StageAfter(stage) ==
  CASE stage = "gate_debtor_type" -> "gate_consent"
    [] stage = "gate_consent"     -> "case_id"
    [] stage = "case_id"          -> "calculate"
    [] stage = "calculate"        -> "render"
    [] stage = "render"           -> "notify"
    [] stage = "notify"           -> "respond"
    [] stage = "respond"          -> "done"

\* raise HTTPException(status_code, detail)
HttpError(status, detail) == [status |-> status, detail |-> detail]

\* an exception no handler catches: the server answers 500
Unhandled == [status |-> 500, detail |-> "Internal Server Error"]

Stepped(stage) == [req EXCEPT !.trace = Append(@, stage)]

\* A letter an earlier run of the service wrote on StartDate, when that run's
\* hash of the client's address had the suffix 2345.
OldLetter ==
  LET sub == [NoSub EXCEPT !.client_email = "cy@old.example",
                           !.client_business = "Old Ltd",
                           !.debtor_name = "Debtor Ltd",
                           !.debtor_address = "1 High St",
                           !.amount_owed_gbp = 500000]
  IN  Letter(CaseIdOf(StartDate, 2345), StartDate, sub,
             ClaimCalc(500000, <<2026, 9, 21>>, StartDate))

\* PDF_OUTPUT_DIR.mkdir(exist_ok=True) keeps a directory that exists, with the
\* files in it: the process starts over no file, or over letters left behind.
InitialStores ==
  {<< >>, [i \in {CaseIdOf(StartDate, 2345)} |-> OldLetter]}

Init ==
  /\ clock = StartDate
  /\ ticks = 0
  /\ hashOf \in HashTables
  /\ store \in InitialStores
  /\ pc = "idle"
  /\ req = NewReq("none", NoSub, NoId, store)
  /\ resp = NoResp
  /\ nreq = 0
  /\ assigned = << >>
  /\ rendered = DOMAIN store
  /\ calcLog = {}

\* Midnight passes.  The handler reads the clock in three stages; a midnight
\* that passes in any other stage is the same as one passing just before the
\* next of these.
Tick ==
  /\ ticks < MaxTicks
  /\ pc \in {"idle", "done", "case_id", "calculate", "render"}
  /\ clock' = NextDay(clock)
  /\ ticks' = ticks + 1
  /\ UNCHANGED <<hashOf, store, pc, req, resp, nreq, assigned, rendered, calcLog>>

Receive(sub) ==
  /\ pc \in {"idle", "done"}
  /\ nreq < MaxRequests
  /\ nreq' = nreq + 1
  /\ req' = NewReq("intake", sub, NoId, store)
  /\ resp' = NoResp
  /\ pc' = "gate_debtor_type"
  /\ UNCHANGED <<clock, ticks, hashOf, store, assigned, rendered, calcLog>>

GateDebtorType ==
  /\ pc = "gate_debtor_type"
  /\ req' = Stepped(pc)
  /\ IF NotBusiness(req.sub)
     THEN /\ resp' = HttpError(422, "B2B only")
          /\ pc' = "done"
     ELSE /\ pc' = StageAfter(pc)
          /\ UNCHANGED resp
  /\ UNCHANGED <<clock, ticks, hashOf, store, nreq, assigned, rendered, calcLog>>

GateConsent ==
  /\ pc = "gate_consent"
  /\ req' = Stepped(pc)
  /\ IF ConsentMissing(req.sub)
     THEN /\ resp' = HttpError(422, "DPA must be accepted")
          /\ pc' = "done"
     ELSE /\ pc' = StageAfter(pc)
          /\ UNCHANGED resp
  /\ UNCHANGED <<clock, ticks, hashOf, store, nreq, assigned, rendered, calcLog>>

AssignCaseId ==
  /\ pc = "case_id"
  /\ LET id == CaseIdOf(clock, hashOf[req.sub.client_email])
     IN  /\ req' = [Stepped(pc) EXCEPT !.case_id = id]
         /\ assigned' = Append(assigned, id)
  /\ pc' = StageAfter(pc)
  /\ UNCHANGED <<clock, ticks, hashOf, store, resp, nreq, rendered, calcLog>>

CalculateClaim ==
  /\ pc = "calculate"
  /\ IF ParsesAsDate(req.sub.due_date)
     THEN LET c == ClaimCalc(req.sub.amount_owed_gbp, req.sub.due_date, clock)
          IN  /\ req' = [Stepped(pc) EXCEPT !.claim = c, !.calcs = @ + 1]
              /\ calcLog' = calcLog \cup
                   {[amount |-> req.sub.amount_owed_gbp,
                     due    |-> req.sub.due_date,
                     now    |-> clock,
                     result |-> c]}
              /\ pc' = StageAfter(pc)
              /\ UNCHANGED resp
     ELSE /\ req' = [Stepped(pc) EXCEPT !.calcs = @ + 1]
          /\ resp' = Unhandled
          /\ pc' = "done"
          /\ UNCHANGED calcLog
  /\ UNCHANGED <<clock, ticks, hashOf, store, nreq, assigned, rendered>>

RenderLetter(outcome) ==
  /\ pc = "render"
  /\ store' = StoreAfterRender(store, req.case_id, outcome,
                               Letter(req.case_id, clock, req.sub, req.claim))
  /\ rendered' = IF outcome.kind = "ok" THEN rendered \cup {req.case_id} ELSE rendered
  /\ req' = [Stepped(pc) EXCEPT !.render = outcome.kind,
                                !.writes = IF outcome.kind = "open_fails" THEN @ ELSE @ + 1]
  /\ IF RenderFailed(outcome)
     THEN /\ resp' = HttpError(500, "LBA generation failed")
          /\ pc' = "done"
     ELSE /\ pc' = StageAfter(pc)
          /\ UNCHANGED resp
  /\ UNCHANGED <<clock, ticks, hashOf, nreq, assigned, calcLog>>

SendEmail(outcome) ==
  /\ pc = "notify"
  /\ LET r == SendEmailViaSendgrid(outcome)
     IN  /\ req' = [Stepped(pc) EXCEPT !.transport = outcome, !.sends = @ + 1,
                                       !.email_sent = r.value]
         /\ IF r.raised
            THEN /\ resp' = Unhandled
                 /\ pc' = "done"
            ELSE /\ pc' = StageAfter(pc)
                 /\ UNCHANGED resp
  /\ UNCHANGED <<clock, ticks, hashOf, store, nreq, assigned, rendered, calcLog>>

Respond ==
  /\ pc = "respond"
  /\ req' = Stepped(pc)
  /\ resp' = [status                 |-> 200,
              case_id                |-> req.case_id,
              client_email           |-> req.sub.client_email,
              amount_owed_gbp        |-> req.sub.amount_owed_gbp,
              statutory_interest_gbp |-> req.claim.statutory_interest_gbp,
              compensation_gbp       |-> req.claim.compensation_gbp,
              total_claim_gbp        |-> req.claim.total_claim_gbp,
              lba_generated          |-> TRUE,
              email_sent             |-> req.email_sent]
  /\ pc' = StageAfter(pc)
  /\ UNCHANGED <<clock, ticks, hashOf, store, nreq, assigned, rendered, calcLog>>

(***************************************************************************)
(* get_case                                                                *)
(***************************************************************************)
\* the response of GET /cases/{case_id} over the directory `st`
get_case(st, id) ==
  IF id \notin DOMAIN st THEN HttpError(404, "Case not found")
  ELSE [status |-> 200, case_id |-> id, case_status |-> "lba_prepared", document |-> id]

\* the case ids a client may ask for
KnownIds ==
  {CaseIdOf(d, h) : d \in {StartDate, NextDay(StartDate)}, h \in RawHashes}

GetCase(id) ==
  /\ pc \in {"idle", "done"}
  /\ nreq < MaxRequests
  /\ nreq' = nreq + 1
  /\ req' = NewReq("get_case", NoSub, id, store)
  /\ resp' = get_case(store, id)
  /\ pc' = "done"
  /\ UNCHANGED <<clock, ticks, hashOf, store, assigned, rendered, calcLog>>

Next ==
  \/ Tick
  \/ \E sub \in Submissions : Receive(sub)
  \/ GateDebtorType
  \/ GateConsent
  \/ AssignCaseId
  \/ CalculateClaim
  \/ \E o \in RenderOutcomes : RenderLetter(o)
  \/ \E o \in TransportOutcomes : SendEmail(o)
  \/ Respond
  \/ \E id \in KnownIds : GetCase(id)

Spec == Init /\ [][Next]_vars

(***************************************************************************)
(* Properties                                                              *)
(***************************************************************************)
IsPrefix(s, t) == Len(s) <= Len(t) /\ s = SubSeq(t, 1, Len(s))

InSeq(x, s) == \E i \in DOMAIN s : s[i] = x

Intake == req.kind = "intake"

PassesGates(sub) == sub.debtor_type = "business" /\ sub.dpa_accepted

ClientError(r) == r.status \in 400 .. 499

\* the transport raised, timed out or answered outside 2xx
TransportFailed(o) ==
  o.kind = "raise" \/ (o.kind = "status" /\ o.code \notin 200 .. 299)

\* C1: a submission that fails a gate (debtor_type other than "business", or
\* consent false whatever the debtor_type) is rejected with a client error,
\* and in that request no claim calculation runs, no document is written and
\* no notification is sent.
C1_GateRejectionHasNoSideEffect ==
  (Intake /\ ~PassesGates(req.sub)) =>
     /\ req.calcs = 0 /\ req.writes = 0 /\ req.sends = 0
     /\ store = req.before
     /\ pc \in {"gate_debtor_type", "gate_consent", "done"}
     /\ (pc = "done" => ClientError(resp))

C1_Witness ==
  /\ Intake /\ pc = "done"
  /\ req.sub.debtor_type = "business" /\ ~req.sub.dpa_accepted
  /\ resp.status = 422
  /\ store # << >>

\* C2: once the document is rendered, a notification failure never aborts the
\* request: send_email_via_sendgrid returns false instead of raising and the
\* response is a success carrying the case id and the computed amounts, with
\* email_sent false.
C2_NotificationFailureIsNotFatal ==
  (Intake /\ req.render = "ok" /\ TransportFailed(req.transport)) =>
     /\ pc \in {"respond", "done"}
     /\ req.email_sent = FALSE
     /\ (pc = "done" =>
           /\ resp.status = 200
           /\ resp.case_id = req.case_id
           /\ resp.amount_owed_gbp = req.sub.amount_owed_gbp
           /\ resp.statutory_interest_gbp = req.claim.statutory_interest_gbp
           /\ resp.compensation_gbp = req.claim.compensation_gbp
           /\ resp.total_claim_gbp = req.claim.total_claim_gbp
           /\ resp.email_sent = FALSE)

C2_Witness ==
  /\ Intake /\ pc = "done"
  /\ req.transport.kind = "raise"
  /\ resp.status = 200
  /\ resp.email_sent = FALSE
  /\ resp.statutory_interest_gbp > 0

\* C3: when a submission passed both gates and rendering fails, the request
\* ends in a server error, no notification is sent for it and no success
\* response is returned: the abort comes after the gates, before notification.
C3_RenderFailureAborts ==
  (Intake /\ req.render \in {"open_fails", "write_fails"}) =>
     /\ pc = "done"
     /\ resp.status \in 500 .. 599
     /\ req.sends = 0
     /\ ~InSeq("notify", req.trace) /\ ~InSeq("respond", req.trace)
     /\ InSeq("gate_debtor_type", req.trace) /\ InSeq("gate_consent", req.trace)
     /\ PassesGates(req.sub)

C3_Witness ==
  /\ Intake /\ pc = "done"
  /\ req.render = "write_fails"
  /\ resp.status = 500

\* C4: any two accepted submissions are given different case identifiers,
\* also two of the same day and the same client e-mail.
C4_CaseIdsAreUnique ==
  \A i, j \in DOMAIN assigned : i # j => assigned[i] # assigned[j]

\* C5: the document store is append-only: what is stored under a case
\* identifier is never changed or replaced by a later request.
C5_StoreIsAppendOnly ==
  [][\A id \in DOMAIN store : id \in DOMAIN store' /\ store'[id] = store[id]]_vars

\* C6: get_case answers found for an identifier exactly when an accepted
\* submission given that identifier had its document rendered successfully;
\* a request that failed never makes its identifier retrievable.
C6_FoundIffRendered ==
  \A id \in KnownIds \cup DOMAIN store \cup rendered :
     (get_case(store, id).status = 200) <=> (id \in rendered)

\* round-half-up of pence * 0.1275 * days / 365, in exact arithmetic:
\* floor((2550 * pence * days + 3650000) / 7300000)
RefInterest(pence, days) ==
  LET n == BigAdd(BigMulSmall(BigMulSmall(BigFromInt(pence), days), 2550),
                  BigFromInt(3650000))
  IN  BigToInt(BigDivSmall(BigDivSmall(n, 10000)[1], 730)[1])

RefClaim(pence, due, now) ==
  LET diff     == Ordinal(now) - Ordinal(due)
      days     == IF diff > 0 THEN diff ELSE 0
      interest == RefInterest(pence, days)
      comp     == IF pence < 100000 THEN 4000
                  ELSE IF pence < 1000000 THEN 7000 ELSE 10000
  IN  [days_overdue           |-> days,
       statutory_interest_gbp |-> interest,
       compensation_gbp       |-> comp,
       total_claim_gbp        |-> FloatCanon(PoundsOf(pence + interest + comp))]

\* C7: calculate_statutory_claim returns the reference result: days_overdue =
\* max(0, whole days from due date to reference date), interest = principal x
\* (0.1275 / 365) x days_overdue rounded half-up to the cent, compensation by
\* the three tiers, total = principal + interest + compensation.
C7_ReferenceResult ==
  \A c \in calcLog : c.result = RefClaim(c.amount, c.due, c.now)

\* C8: two calls of calculate_statutory_claim with the same arguments return
\* the same result whatever the wall-clock time is at each call.
C8_SameArgumentsSameResult ==
  \A a, b \in calcLog :
     (a.amount = b.amount /\ a.due = b.due) => a.result = b.result

\* C9: a submission that passes both gates and whose due date is no calendar
\* date is answered with a client (validation) error, not a server error,
\* before any side effect: no document written, no notification sent.
C9_BadDueDateIsClientError ==
  (Intake /\ pc = "done" /\ PassesGates(req.sub) /\ ~ParsesAsDate(req.sub.due_date)) =>
     /\ ClientError(resp)
     /\ req.writes = 0 /\ req.sends = 0 /\ store = req.before

\* the order of the stages in handle_intake
CodeOrder ==
  <<"gate_debtor_type", "gate_consent", "case_id", "calculate", "render",
    "notify", "respond">>

\* the order of the stages as C10 states it
ClaimedOrder ==
  <<"gate_debtor_type", "gate_consent", "calculate", "case_id", "render",
    "notify", "respond">>

\* what C10 says besides the order: the notification is attempted at most
\* once in a request, and only after the document of the case was rendered
NotifiedOnceAfterRender ==
  /\ req.sends <= 1
  /\ req.sends = 1 =>
       /\ req.render = "ok"
       /\ req.case_id \in DOMAIN store
       /\ \E i, j \in DOMAIN req.trace :
            i < j /\ req.trace[i] = "render" /\ req.trace[j] = "notify"

\* C10 (as stated): the stages of one intake request run in the order gates,
\* claim calculation, case-id assignment, rendering, notification, response,
\* each at most once; the notification at most once and after rendering.
C10_ClaimedStageOrder ==
  Intake => (IsPrefix(req.trace, ClaimedOrder) /\ NotifiedOnceAfterRender)

\* C10 (amended): the same with the case id assigned before the claim is
\* calculated: gates, case-id assignment, claim calculation, rendering,
\* notification, response.
C10_StageOrder ==
  Intake => (IsPrefix(req.trace, CodeOrder) /\ NotifiedOnceAfterRender)

C10_Witness ==
  Intake /\ pc = "done" /\ req.trace = CodeOrder /\ req.sends = 1

=============================================================================
